---- MODULE Spec2Model ----
(***************************************************************************)
(* pin_extract.py: fetch the leaf certificate of a TLS server, export its  *)
(* public key in the raw form of SecKeyCopyExternalRepresentation, and     *)
(* print base64(sha256(raw)) as the pin.                                   *)
(*                                                                         *)
(* Bytes are integers 0..255 and byte strings are sequences of them.       *)
(* Printed text is kept as TLA+ strings, one string per output line.       *)
(***************************************************************************)
EXTENDS Integers, Sequences, FiniteSets, TLC

(***************************************************************************)
(* hashlib.sha256 (FIPS 180-4).  A 32-bit word is a pair <<hi, lo>> of     *)
(* 16-bit halves, since TLC's integers are 32-bit signed.                  *)
(***************************************************************************)
RECURSIVE BitXor(_, _)
BitXor(a, b) ==
  IF a = 0 THEN b
  ELSE IF b = 0 THEN a
  ELSE ((a + b) % 2) + 2 * BitXor(a \div 2, b \div 2)

RECURSIVE BitAnd(_, _)
BitAnd(a, b) ==
  IF a = 0 \/ b = 0 THEN 0
  ELSE ((a % 2) * (b % 2)) + 2 * BitAnd(a \div 2, b \div 2)

\* XorTab[a + 1][b + 1] = a XOR b and AndTab[a + 1][b + 1] = a AND b on nibbles.
XorTab == [a \in 1..16 |-> [b \in 1..16 |-> BitXor(a - 1, b - 1)]]

AndTab == [a \in 1..16 |-> [b \in 1..16 |-> BitAnd(a - 1, b - 1)]]

Xor16(a, b) ==
    XorTab[(a \div 4096) + 1][(b \div 4096) + 1] * 4096
  + XorTab[((a \div 256) % 16) + 1][((b \div 256) % 16) + 1] * 256
  + XorTab[((a \div 16) % 16) + 1][((b \div 16) % 16) + 1] * 16
  + XorTab[(a % 16) + 1][(b % 16) + 1]

And16(a, b) ==
    AndTab[(a \div 4096) + 1][(b \div 4096) + 1] * 4096
  + AndTab[((a \div 256) % 16) + 1][((b \div 256) % 16) + 1] * 256
  + AndTab[((a \div 16) % 16) + 1][((b \div 16) % 16) + 1] * 16
  + AndTab[(a % 16) + 1][(b % 16) + 1]

WXor(a, b) == <<Xor16(a[1], b[1]), Xor16(a[2], b[2])>>

WAnd(a, b) == <<And16(a[1], b[1]), And16(a[2], b[2])>>

WNot(a) == <<65535 - a[1], 65535 - a[2]>>

\* Addition modulo 2^32.
WAdd(a, b) ==
  LET l == a[2] + b[2]
  IN  <<(a[1] + b[1] + (l \div 65536)) % 65536, l % 65536>>

\* Pow2[n + 1] = 2^n, 0 <= n <= 16.
Pow2 ==
  <<1, 2, 4, 8, 16, 32, 64, 128, 256, 512, 1024, 2048, 4096, 8192, 16384,
    32768, 65536>>

\* Rotate right by n bits, 0 < n < 32.
RotR(a, n) ==
  LET s == IF n >= 16 THEN <<a[2], a[1]>> ELSE a
      m == n % 16
      p == Pow2[m + 1]
      q == Pow2[17 - m]
  IN  IF m = 0 THEN s
      ELSE <<(s[1] \div p) + (s[2] % p) * q, (s[2] \div p) + (s[1] % p) * q>>

\* Shift right by n bits, 0 < n < 16.
ShR(a, n) ==
  LET p == Pow2[n + 1]
      q == Pow2[17 - n]
  IN  <<a[1] \div p, (a[2] \div p) + (a[1] % p) * q>>

\* Round constants: the fractional parts of the cube roots of the first 64 primes.
K ==
  << <<17034, 12184>>, <<28983, 17553>>, <<46528, 64463>>, <<59829, 56229>>, <<14678, 49755>>, <<23025, 4593>>,
     <<37439, 33444>>, <<43804, 24277>>, <<55303, 43672>>, <<4739, 23297>>, <<9265, 34238>>, <<21772, 32195>>,
     <<29374, 23924>>, <<32990, 45566>>, <<39900, 1703>>, <<49563, 61812>>, <<58523, 27073>>, <<61374, 18310>>,
     <<4033, 40390>>, <<9228, 41420>>, <<11753, 11375>>, <<19060, 33962>>, <<23728, 43484>>, <<30457, 35034>>,
     <<38974, 20818>>, <<43057, 50797>>, <<45059, 10184>>, <<48985, 32711>>, <<50912, 3059>>, <<54695, 37191>>,
     <<1738, 25425>>, <<5161, 10599>>, <<10167, 2693>>, <<11803, 8504>>, <<19756, 28156>>, <<21304, 3347>>,
     <<25866, 29524>>, <<30314, 2747>>, <<33218, 51502>>, <<37490, 11397>>, <<41663, 59553>>, <<43034, 26187>>,
     <<49739, 35696>>, <<51052, 20899>>, <<53650, 59417>>, <<54937, 1572>>, <<62478, 13701>>, <<4202, 41072>>,
     <<6564, 49430>>, <<7735, 27656>>, <<10056, 30540>>, <<13488, 48309>>, <<14620, 3251>>, <<20184, 43594>>,
     <<23452, 51791>>, <<26670, 28659>>, <<29839, 33518>>, <<30885, 25455>>, <<33992, 30740>>, <<36039, 520>>,
     <<37054, 65530>>, <<42064, 27883>>, <<48889, 41975>>, <<50801, 30962>> >>

\* Initial hash value: the fractional parts of the square roots of the first 8 primes.
H0 ==
  << <<27145, 58983>>, <<47975, 44677>>, <<15470, 62322>>, <<42319, 62778>>, <<20750, 21119>>, <<39685, 26764>>,
     <<8067, 55723>>, <<23520, 52505>> >>

\* The message followed by 0x80, zeros up to 56 mod 64, and its bit length
\* as a 64-bit big-endian integer.
Sha256Pad(msg) ==
  LET n == Len(msg)
      z == (119 - (n % 64)) % 64
      bits == n * 8
  IN  msg \o <<128>> \o [j \in 1..z |-> 0] \o <<0, 0, 0, 0>>
          \o <<(bits \div 16777216) % 256, (bits \div 65536) % 256,
               (bits \div 256) % 256, bits % 256>>

\* The big-endian word at bytes m[j .. j + 3].
WordAt(m, j) == <<m[j] * 256 + m[j + 1], m[j + 2] * 256 + m[j + 3]>>

\* Message schedule: extends w[1..16] to w[1..64].  (The test on Len makes
\* TLC build each extension before it recurses.)
RECURSIVE Schedule(_, _)
Schedule(w, t) ==
  IF t > 64 THEN w
  ELSE LET x == w[t - 15]
           y == w[t - 2]
           s0 == WXor(WXor(RotR(x, 7), RotR(x, 18)), ShR(x, 3))
           s1 == WXor(WXor(RotR(y, 17), RotR(y, 19)), ShR(y, 10))
           nw == Append(w, WAdd(WAdd(w[t - 16], s0), WAdd(w[t - 7], s1)))
       IN  IF Len(nw) = t THEN Schedule(nw, t + 1) ELSE nw

\* T1 and T2 of one round on the working variables s = <<a, b, c, d, e, f, g, h>>.
T1(s, k, wt) ==
  WAdd(WAdd(WAdd(s[8], WXor(WXor(RotR(s[5], 6), RotR(s[5], 11)), RotR(s[5], 25))),
            WAdd(WXor(WAnd(s[5], s[6]), WAnd(WNot(s[5]), s[7])), k)),
       wt)

T2(s) ==
  WAdd(WXor(WXor(RotR(s[1], 2), RotR(s[1], 13)), RotR(s[1], 22)),
       WXor(WXor(WAnd(s[1], s[2]), WAnd(s[1], s[3])), WAnd(s[2], s[3])))

\* The working variables after a round with temporaries t1 and t2.
Rotate(s, t1, t2) ==
  <<WAdd(t1, t2), s[1], s[2], s[3], WAdd(s[4], t1), s[5], s[6], s[7]>>

\* Rounds t..64.  (The test on Len makes TLC finish each round
\* before it recurses.)
RECURSIVE Rounds(_, _, _)
Rounds(s, w, t) ==
  IF t > 64 THEN s
  ELSE LET ns == Rotate(s, T1(s, K[t], w[t]), T2(s))
       IN  IF Len(ns) = 8 THEN Rounds(ns, w, t + 1) ELSE ns

\* Word-wise addition modulo 2^32 of two hash values.
AddWords(h, s) == [j \in 1..8 |-> WAdd(h[j], s[j])]

\* One 64-byte block of m, starting after byte off, folded into the hash h.
Compress(h, m, off) ==
  AddWords(h, Rounds(h, Schedule([j \in 1..16 |-> WordAt(m, off + 4 * (j - 1) + 1)], 17), 1))

RECURSIVE Blocks(_, _, _)
Blocks(h, m, off) ==
  IF off >= Len(m) THEN h
  ELSE LET nh == Compress(h, m, off)
       IN  IF Len(nh) = 8 THEN Blocks(nh, m, off + 64) ELSE nh

\* The 32 bytes of eight words, big-endian.
WordBytes(h) ==
  [j \in 1..32 |->
     LET half == h[((j - 1) \div 4) + 1][(((j - 1) % 4) \div 2) + 1]
     IN  IF j % 2 = 1 THEN half \div 256 ELSE half % 256]

\* hashlib.sha256(data).digest(): 32 bytes.
sha256(data) == WordBytes(Blocks(H0, Sha256Pad(data), 0))

(***************************************************************************)
(* base64.b64encode(...).decode("ascii") (RFC 4648, with padding).         *)
(***************************************************************************)
B64Alphabet ==
  <<"A", "B", "C", "D", "E", "F", "G", "H", "I", "J", "K", "L", "M", "N", "O", "P",
    "Q", "R", "S", "T", "U", "V", "W", "X", "Y", "Z", "a", "b", "c", "d", "e", "f",
    "g", "h", "i", "j", "k", "l", "m", "n", "o", "p", "q", "r", "s", "t", "u", "v",
    "w", "x", "y", "z", "0", "1", "2", "3", "4", "5", "6", "7", "8", "9", "+", "/">>

\* The four characters of the 3-byte group d[i .. i + 2]; a group cut short
\* by the end of d is padded with "=".
B64Group(d, i) ==
  LET n  == Len(d)
      b1 == d[i]
      b2 == IF i + 1 <= n THEN d[i + 1] ELSE 0
      b3 == IF i + 2 <= n THEN d[i + 2] ELSE 0
  IN  B64Alphabet[(b1 \div 4) + 1]
        \o B64Alphabet[((b1 % 4) * 16 + (b2 \div 16)) + 1]
        \o (IF i + 1 <= n THEN B64Alphabet[((b2 % 16) * 4 + (b3 \div 64)) + 1] ELSE "=")
        \o (IF i + 2 <= n THEN B64Alphabet[(b3 % 64) + 1] ELSE "=")

\* The encoding of groups lo..hi of d (group g starts at byte 3g - 2).
RECURSIVE B64Range(_, _, _)
B64Range(d, lo, hi) ==
  IF lo > hi THEN ""
  ELSE IF lo = hi THEN B64Group(d, 3 * lo - 2)
  ELSE LET mid == (lo + hi) \div 2
       IN  B64Range(d, lo, mid) \o B64Range(d, mid + 1, hi)

b64encode(d) == B64Range(d, 1, (Len(d) + 2) \div 3)

(***************************************************************************)
(* DER (X.690) as the cryptography package reads and writes it.            *)
(* A non-negative integer is kept as its big-endian magnitude without      *)
(* leading zero bytes (zero is the empty sequence): key material is far    *)
(* wider than TLC's integers.                                              *)
(***************************************************************************)
RECURSIVE StripZeros(_)
StripZeros(b) ==
  IF b = <<>> THEN <<>>
  ELSE IF b[1] # 0 THEN b
  ELSE StripZeros(Tail(b))

\* b left-padded with zero bytes to w bytes (int.to_bytes(w, "big")).
LeftPad(b, w) == [j \in 1..(w - Len(b)) |-> 0] \o b

\* Definite-form length octets, for lengths below 65536.
DerLength(n) ==
  IF n < 128 THEN <<n>>
  ELSE IF n < 256 THEN <<129, n>>
  ELSE <<130, n \div 256, n % 256>>

DerTLV(tag, content) == <<tag>> \o DerLength(Len(content)) \o content

DerSequence(content) == DerTLV(48, content)

\* INTEGER: two's complement, so a magnitude whose top bit is set gets a
\* leading zero byte.
DerInteger(mag) ==
  DerTLV(2, IF mag = <<>> THEN <<0>>
            ELSE IF mag[1] >= 128 THEN <<0>> \o mag
            ELSE mag)

\* BIT STRING with no unused bits.
DerBitString(content) == DerTLV(3, <<0>> \o content)

DerNull == <<5, 0>>

DerOid(body) == DerTLV(6, body)

\* The element that starts at b[p] and must end by b[hi]: its tag, its own
\* index, the index of its first content byte, its content length and the
\* index after it.
\* Lengths must be in the shortest form (DER).
ReadTLV(b, p, hi) ==
  LET bad == [ok |-> FALSE, tag |-> 0, pos |-> 0, start |-> 0, len |-> 0, next |-> 0]
      mk(hdr, len) ==
        IF p + hdr + len - 1 <= hi
        THEN [ok |-> TRUE, tag |-> b[p], pos |-> p, start |-> p + hdr, len |-> len,
              next |-> p + hdr + len]
        ELSE bad
  IN  IF p + 1 > hi THEN bad
      ELSE IF b[p + 1] < 128 THEN mk(2, b[p + 1])
      ELSE IF b[p + 1] = 129 /\ p + 2 <= hi /\ b[p + 2] >= 128 THEN mk(3, b[p + 2])
      ELSE IF b[p + 1] = 130 /\ p + 3 <= hi /\ b[p + 2] > 0
        THEN mk(4, b[p + 2] * 256 + b[p + 3])
      ELSE bad

\* The elements that fill b[p .. hi] exactly, in order; <<>> with ok FALSE
\* when they do not.
RECURSIVE ReadAll(_, _, _)
ReadAll(b, p, hi) ==
  IF p > hi THEN [ok |-> TRUE, items |-> <<>>]
  ELSE LET e == ReadTLV(b, p, hi)
       IN  IF ~e.ok THEN [ok |-> FALSE, items |-> <<>>]
           ELSE LET rest == ReadAll(b, e.next, hi)
                IN  [ok |-> rest.ok, items |-> IF rest.ok THEN <<e>> \o rest.items ELSE <<>>]

\* The children of the constructed element e of b.
Children(b, e) == ReadAll(b, e.start, e.start + e.len - 1)

Content(b, e) == SubSeq(b, e.start, e.start + e.len - 1)

\* The whole element e of b, header included.
Element(b, e) == SubSeq(b, e.pos, e.next - 1)

\* Algorithm and curve object identifiers (content octets).
OidRsaEncryption == <<42, 134, 72, 134, 247, 13, 1, 1, 1>>

OidEcPublicKey == <<42, 134, 72, 206, 61, 2, 1>>

OidEd25519 == <<43, 101, 112>>

OidEd448 == <<43, 101, 113>>

OidX25519 == <<43, 101, 110>>

\* The named curves: object identifier, curve.name and field width in bytes.
Curves ==
  { [oid |-> <<42, 134, 72, 206, 61, 3, 1, 7>>, name |-> "secp256r1", width |-> 32],
    [oid |-> <<43, 129, 4, 0, 34>>, name |-> "secp384r1", width |-> 48],
    [oid |-> <<43, 129, 4, 0, 35>>, name |-> "secp521r1", width |-> 66] }

FieldWidth(curve) == (CHOOSE c \in Curves : c.name = curve).width

CurveOid(curve) == (CHOOSE c \in Curves : c.name = curve).oid

(***************************************************************************)
(* Exceptions are records of the exception class and str(e).               *)
(***************************************************************************)
NoException == [type |-> "none", msg |-> ""]

Raise(type, msg) == [type |-> type, msg |-> msg]

(***************************************************************************)
(* x509.load_der_x509_certificate: Certificate ::= SEQUENCE {              *)
(* tbsCertificate, signatureAlgorithm, signatureValue }, where             *)
(* tbsCertificate holds an optional [0] version, serialNumber, signature,  *)
(* issuer, validity, subject and subjectPublicKeyInfo.  The result keeps   *)
(* the subjectPublicKeyInfo element; a blob that is not such a structure   *)
(* raises ValueError.                                                      *)
(***************************************************************************)
ParseError == Raise("ValueError", "error parsing asn1 value")

BadCertificate == [ok |-> FALSE, exc |-> ParseError, spki |-> <<>>]

\* tbsCertificate, given its children tbs: subjectPublicKeyInfo is the
\* seventh of them when the [0] version field is there, else the sixth.
TbsCertificate(der, tbs) ==
  LET at == IF tbs.ok /\ Len(tbs.items) >= 1 /\ tbs.items[1].tag = 160 THEN 7 ELSE 6
  IN  IF ~tbs.ok \/ Len(tbs.items) < at THEN BadCertificate
      ELSE IF tbs.items[at].tag # 48 THEN BadCertificate
      ELSE [ok |-> TRUE, exc |-> NoException, spki |-> Element(der, tbs.items[at])]

\* Certificate, given its children parts.
Certificate(der, parts) ==
  IF ~parts.ok \/ Len(parts.items) # 3 THEN BadCertificate
  ELSE IF parts.items[1].tag # 48 \/ parts.items[2].tag # 48 \/ parts.items[3].tag # 3
    THEN BadCertificate
  ELSE TbsCertificate(der, Children(der, parts.items[1]))

\* The outermost element top must be a SEQUENCE that spans der.
CertificateAt(der, top) ==
  IF ~top.ok \/ top.tag # 48 \/ top.next # Len(der) + 1 THEN BadCertificate
  ELSE Certificate(der, Children(der, top))

load_der_x509_certificate(der) == CertificateAt(der, ReadTLV(der, 1, Len(der)))

(***************************************************************************)
(* cert.public_key(): SubjectPublicKeyInfo ::= SEQUENCE { algorithm        *)
(* SEQUENCE { OID, parameters }, subjectPublicKey BIT STRING }.  The key   *)
(* object carries its class name, its family and its numbers or bytes.     *)
(* An algorithm the package does not know raises UnsupportedAlgorithm, and *)
(* key material that does not fit the algorithm raises ValueError.         *)
(* Elliptic-curve points are read in their uncompressed form, the form     *)
(* every certificate of this model carries.                                *)
(***************************************************************************)
NoKey ==
  [cls |-> "", family |-> "", curve |-> "", n |-> <<>>, e |-> <<>>,
   x |-> <<>>, y |-> <<>>, bytes |-> <<>>]

KeyError == Raise("ValueError", "invalid public key")

UnsupportedKey == Raise("UnsupportedAlgorithm", "Unknown key type")

BadKey == [ok |-> FALSE, exc |-> KeyError, key |-> NoKey]

\* RSAPublicKey, given its children ints: modulus and publicExponent.
RsaNumbers(bits, ints) ==
  IF ~ints.ok \/ Len(ints.items) # 2 THEN BadKey
  ELSE IF ints.items[1].tag # 2 \/ ints.items[2].tag # 2 THEN BadKey
  ELSE [ok |-> TRUE, exc |-> NoException,
        key |-> [NoKey EXCEPT !.cls = "RSAPublicKey", !.family = "RSA",
                   !.n = StripZeros(Content(bits, ints.items[1])),
                   !.e = StripZeros(Content(bits, ints.items[2]))]]

RsaKeyAt(bits, seq) ==
  IF ~seq.ok \/ seq.tag # 48 \/ seq.next # Len(bits) + 1 THEN BadKey
  ELSE RsaNumbers(bits, Children(bits, seq))

RsaKey(bits) == RsaKeyAt(bits, ReadTLV(bits, 1, Len(bits)))

EcPoint(c, point) ==
  IF Len(point) # 1 + 2 * c.width \/ point[1] # 4 THEN BadKey
  ELSE [ok |-> TRUE, exc |-> NoException,
        key |-> [NoKey EXCEPT !.cls = "EllipticCurvePublicKey",
                   !.family = "EC", !.curve = c.name,
                   !.x = StripZeros(SubSeq(point, 2, c.width + 1)),
                   !.y = StripZeros(SubSeq(point, c.width + 2, 2 * c.width + 1))]]

EcKey(params, point) ==
  IF Len(params) < 2 \/ params[1] # 6 THEN BadKey
  ELSE IF ~(\E c \in Curves : DerOid(c.oid) = params)
    THEN [ok |-> FALSE, exc |-> UnsupportedKey, key |-> NoKey]
  ELSE EcPoint(CHOOSE c \in Curves : DerOid(c.oid) = params, point)

\* The Edwards and Montgomery keys of RFC 8410: no parameters, fixed length.
RawKey(cls, family, size, bits) ==
  IF Len(bits) # size THEN BadKey
  ELSE [ok |-> TRUE, exc |-> NoException,
        key |-> [NoKey EXCEPT !.cls = cls, !.family = family, !.bytes = bits]]

\* The key of algorithm oid with parameters params and key bits bits.
AlgorithmKey(oid, params, bits) ==
  CASE oid = OidRsaEncryption -> RsaKey(bits)
    [] oid = OidEcPublicKey -> EcKey(params, bits)
    [] oid = OidEd25519 -> RawKey("Ed25519PublicKey", "Ed25519", 32, bits)
    [] oid = OidEd448 -> RawKey("Ed448PublicKey", "Ed448", 57, bits)
    [] oid = OidX25519 -> RawKey("X25519PublicKey", "X25519", 32, bits)
    [] OTHER -> [ok |-> FALSE, exc |-> UnsupportedKey, key |-> NoKey]

\* The key, given the children alg of the algorithm identifier and the
\* content bs of the bit string (its first byte counts the unused bits).
SubjectPublicKey(b, alg, bs) ==
  IF ~alg.ok \/ Len(alg.items) < 1 \/ Len(alg.items) > 2 THEN BadKey
  ELSE IF alg.items[1].tag # 6 \/ bs = <<>> THEN BadKey
  ELSE IF bs[1] # 0 THEN BadKey
  ELSE AlgorithmKey(Content(b, alg.items[1]),
                    IF Len(alg.items) = 2 THEN Element(b, alg.items[2]) ELSE <<>>,
                    Tail(bs))

\* SubjectPublicKeyInfo, given its children parts.
SubjectPublicKeyInfo(b, parts) ==
  IF ~parts.ok \/ Len(parts.items) # 2 THEN BadKey
  ELSE IF parts.items[1].tag # 48 \/ parts.items[2].tag # 3 THEN BadKey
  ELSE SubjectPublicKey(b, Children(b, parts.items[1]), Content(b, parts.items[2]))

SubjectPublicKeyInfoAt(b, top) ==
  IF ~top.ok THEN BadKey ELSE SubjectPublicKeyInfo(b, Children(b, top))

public_key(cert) ==
  SubjectPublicKeyInfoAt(cert.spki, ReadTLV(cert.spki, 1, Len(cert.spki)))

(***************************************************************************)
(* pub.public_bytes(encoding, format), one operator per pair the program   *)
(* asks for.                                                               *)
(***************************************************************************)
\* Encoding.DER, PublicFormat.PKCS1: RSAPublicKey ::= SEQUENCE { modulus
\* INTEGER, publicExponent INTEGER }.
public_bytes_PKCS1(pub) == DerSequence(DerInteger(pub.n) \o DerInteger(pub.e))

\* Fault: the coordinates written as short as their values allow.
public_bytes_X962_unpadded(pub) == <<4>> \o pub.x \o pub.y

\* Encoding.X962, PublicFormat.UncompressedPoint: 0x04 || X || Y, each
\* coordinate as wide as the field.
public_bytes_X962(pub) ==
  <<4>> \o LeftPad(pub.x, FieldWidth(pub.curve)) \o LeftPad(pub.y, FieldWidth(pub.curve))

\* Encoding.Raw, PublicFormat.Raw.
public_bytes_Raw(pub) == pub.bytes

\* Encoding.DER, PublicFormat.SubjectPublicKeyInfo.
public_bytes_SPKI(pub) ==
  CASE pub.family = "RSA" ->
         DerSequence(DerSequence(DerOid(OidRsaEncryption) \o DerNull)
                     \o DerBitString(public_bytes_PKCS1(pub)))
    [] pub.family = "EC" ->
         DerSequence(DerSequence(DerOid(OidEcPublicKey) \o DerOid(CurveOid(pub.curve)))
                     \o DerBitString(public_bytes_X962(pub)))
    [] pub.family = "Ed25519" ->
         DerSequence(DerSequence(DerOid(OidEd25519)) \o DerBitString(pub.bytes))
    [] pub.family = "Ed448" ->
         DerSequence(DerSequence(DerOid(OidEd448)) \o DerBitString(pub.bytes))
    [] pub.family = "X25519" ->
         DerSequence(DerSequence(DerOid(OidX25519)) \o DerBitString(pub.bytes))

(***************************************************************************)
(* export_raw_public_key(cert_der) -> (raw, spki, ktype), or the exception *)
(* that load_der_x509_certificate or public_key raises.                    *)
(***************************************************************************)
\* isinstance(pub, ...) against the key interfaces of the package.
isinstance(pub, families) == pub.family \in families

\* The label of line 39; the source has the arrow U+2192 where this has "->"
\* (strings are kept in ASCII here).
FallbackLabel == "Unknown type -> SPKI fallback"

\* Fault: no dispatch, every key exported in the fallback form.
RawExportFallbackOnly(pub) ==
  [raw |-> public_bytes_SPKI(pub), ktype |-> FallbackLabel]

\* Lines 27-39: the raw export and its label.
RawExport(pub) ==
  IF isinstance(pub, {"RSA"})
  THEN [raw |-> public_bytes_PKCS1(pub), ktype |-> "RSA (PKCS#1 DER)"]
  ELSE IF isinstance(pub, {"EC"})
  THEN [raw |-> public_bytes_X962(pub),
        ktype |-> "EC " \o pub.curve \o " (X9.63 uncompressed)"]
  ELSE IF isinstance(pub, {"Ed25519", "Ed448"})
  THEN [raw |-> public_bytes_Raw(pub), ktype |-> pub.cls \o " (raw)"]
  ELSE [raw |-> public_bytes_SPKI(pub), ktype |-> FallbackLabel]

ExportFailed(err) ==
  [ok |-> FALSE, exc |-> err, raw |-> <<>>, spki |-> <<>>, ktype |-> ""]

\* Lines 27-43, given pub.
ExportKey(pub) ==
  LET r == RawExport(pub)
  IN  [ok |-> TRUE, exc |-> NoException, raw |-> r.raw,
       spki |-> public_bytes_SPKI(pub), ktype |-> r.ktype]

\* Lines 27-43, given what line 21 returned or raised.
ExportPublicKey(pk) == IF ~pk.ok THEN ExportFailed(pk.exc) ELSE ExportKey(pk.key)

\* Lines 21-43, given what line 20 returned or raised.
ExportCertificate(cert) ==
  IF ~cert.ok THEN ExportFailed(cert.exc) ELSE ExportPublicKey(public_key(cert))

export_raw_public_key(der) == ExportCertificate(load_der_x509_certificate(der))

(***************************************************************************)
(* The certificates a peer presents in this model: DER as a server would   *)
(* send it, one per key family, with real key material.                    *)
(***************************************************************************)
\* RSA, 1024-bit modulus, e = 65537; a version 1 certificate (no [0] version field).
CertRsa ==
  << 48, 130, 1, 91, 48, 130, 1, 2, 2, 2, 16, 1, 48, 10, 6, 8, 42, 134, 72,
     206, 61, 4, 3, 2, 48, 18, 49, 16, 48, 14, 6, 3, 85, 4, 3, 12, 7, 84,
     101, 115, 116, 32, 67, 65, 48, 30, 23, 13, 50, 52, 48, 49, 48, 49, 48,
     48, 48, 48, 48, 48, 90, 23, 13, 51, 52, 48, 49, 48, 49, 48, 48, 48, 48,
     48, 48, 90, 48, 26, 49, 24, 48, 22, 6, 3, 85, 4, 3, 12, 15, 97, 112,
     105, 46, 101, 120, 97, 109, 112, 108, 101, 46, 99, 111, 109, 48, 129,
     159, 48, 13, 6, 9, 42, 134, 72, 134, 247, 13, 1, 1, 1, 5, 0, 3, 129,
     141, 0, 48, 129, 137, 2, 129, 129, 0, 190, 248, 54, 219, 228, 220, 146,
     125, 82, 152, 109, 65, 105, 200, 96, 237, 163, 122, 93, 254, 33, 118,
     118, 83, 151, 232, 236, 176, 225, 250, 53, 7, 245, 136, 127, 63, 74,
     157, 255, 186, 200, 51, 181, 59, 255, 34, 105, 153, 218, 193, 70, 184,
     222, 107, 140, 149, 84, 90, 78, 58, 240, 138, 35, 91, 83, 121, 235, 119,
     214, 255, 17, 245, 168, 49, 166, 74, 26, 186, 137, 239, 165, 213, 208,
     11, 59, 226, 235, 176, 212, 110, 118, 104, 41, 65, 221, 12, 131, 109,
     248, 78, 127, 103, 147, 57, 31, 208, 150, 137, 40, 170, 33, 30, 62, 68,
     32, 82, 134, 111, 11, 250, 108, 21, 241, 127, 109, 186, 230, 239, 2, 3,
     1, 0, 1, 48, 10, 6, 8, 42, 134, 72, 206, 61, 4, 3, 2, 3, 71, 0, 48, 68,
     2, 32, 105, 31, 132, 18, 18, 139, 47, 51, 12, 92, 127, 208, 166, 163,
     164, 80, 101, 19, 39, 14, 38, 158, 13, 55, 242, 167, 77, 228, 82, 230,
     180, 56, 2, 32, 27, 123, 58, 230, 129, 231, 78, 245, 232, 226, 93, 148,
     14, 217, 4, 117, 149, 49, 152, 93, 93, 157, 201, 248, 24, 24, 232, 17,
     137, 47, 144, 43 >>

\* EC secp256r1.
CertP256 ==
  << 48, 130, 1, 24, 48, 129, 192, 160, 3, 2, 1, 2, 2, 2, 16, 3, 48, 10, 6,
     8, 42, 134, 72, 206, 61, 4, 3, 2, 48, 18, 49, 16, 48, 14, 6, 3, 85, 4,
     3, 12, 7, 84, 101, 115, 116, 32, 67, 65, 48, 30, 23, 13, 50, 52, 48, 49,
     48, 49, 48, 48, 48, 48, 48, 48, 90, 23, 13, 51, 52, 48, 49, 48, 49, 48,
     48, 48, 48, 48, 48, 90, 48, 26, 49, 24, 48, 22, 6, 3, 85, 4, 3, 12, 15,
     97, 112, 105, 46, 101, 120, 97, 109, 112, 108, 101, 46, 99, 111, 109,
     48, 89, 48, 19, 6, 7, 42, 134, 72, 206, 61, 2, 1, 6, 8, 42, 134, 72,
     206, 61, 3, 1, 7, 3, 66, 0, 4, 93, 150, 207, 127, 38, 91, 237, 169, 207,
     12, 38, 239, 66, 67, 237, 82, 86, 107, 249, 215, 197, 90, 69, 248, 209,
     166, 229, 94, 155, 155, 19, 37, 226, 228, 149, 196, 125, 3, 224, 201,
     84, 201, 225, 181, 160, 102, 182, 6, 178, 74, 5, 186, 158, 37, 138, 125,
     248, 25, 157, 19, 12, 112, 105, 35, 48, 10, 6, 8, 42, 134, 72, 206, 61,
     4, 3, 2, 3, 71, 0, 48, 68, 2, 32, 6, 88, 241, 78, 101, 140, 218, 20,
     149, 230, 10, 245, 147, 189, 4, 207, 15, 214, 48, 241, 242, 157, 13,
     169, 149, 63, 72, 241, 160, 159, 118, 181, 2, 32, 53, 166, 89, 33, 74,
     35, 213, 150, 34, 23, 190, 173, 219, 196, 150, 203, 142, 129, 151, 62,
     11, 236, 215, 176, 56, 152, 209, 144, 249, 235, 218, 204 >>

\* EC secp256r1; the X coordinate has a leading zero byte.
CertP256LeadingZero ==
  << 48, 130, 1, 24, 48, 129, 192, 160, 3, 2, 1, 2, 2, 2, 16, 4, 48, 10, 6,
     8, 42, 134, 72, 206, 61, 4, 3, 2, 48, 18, 49, 16, 48, 14, 6, 3, 85, 4,
     3, 12, 7, 84, 101, 115, 116, 32, 67, 65, 48, 30, 23, 13, 50, 52, 48, 49,
     48, 49, 48, 48, 48, 48, 48, 48, 90, 23, 13, 51, 52, 48, 49, 48, 49, 48,
     48, 48, 48, 48, 48, 90, 48, 26, 49, 24, 48, 22, 6, 3, 85, 4, 3, 12, 15,
     97, 112, 105, 46, 101, 120, 97, 109, 112, 108, 101, 46, 99, 111, 109,
     48, 89, 48, 19, 6, 7, 42, 134, 72, 206, 61, 2, 1, 6, 8, 42, 134, 72,
     206, 61, 3, 1, 7, 3, 66, 0, 4, 0, 173, 145, 90, 179, 117, 35, 165, 59,
     74, 62, 226, 4, 99, 81, 55, 85, 172, 14, 205, 94, 106, 10, 46, 221, 112,
     227, 77, 193, 215, 124, 255, 105, 101, 241, 129, 114, 12, 134, 207, 113,
     223, 55, 104, 162, 49, 71, 32, 199, 249, 104, 136, 16, 248, 190, 6, 251,
     168, 167, 28, 11, 100, 91, 2, 48, 10, 6, 8, 42, 134, 72, 206, 61, 4, 3,
     2, 3, 71, 0, 48, 68, 2, 32, 87, 75, 221, 74, 208, 237, 168, 47, 143,
     109, 5, 88, 78, 248, 170, 56, 146, 39, 102, 88, 30, 39, 161, 192, 138,
     106, 99, 236, 36, 237, 230, 164, 2, 32, 12, 120, 154, 233, 95, 85, 114,
     3, 48, 24, 80, 197, 163, 143, 213, 71, 146, 58, 115, 105, 148, 227, 191,
     145, 26, 97, 219, 226, 46, 68, 21, 139 >>

\* EC secp384r1; the Y coordinate has a leading zero byte.
CertP384 ==
  << 48, 130, 1, 53, 48, 129, 221, 160, 3, 2, 1, 2, 2, 2, 16, 5, 48, 10, 6,
     8, 42, 134, 72, 206, 61, 4, 3, 2, 48, 18, 49, 16, 48, 14, 6, 3, 85, 4,
     3, 12, 7, 84, 101, 115, 116, 32, 67, 65, 48, 30, 23, 13, 50, 52, 48, 49,
     48, 49, 48, 48, 48, 48, 48, 48, 90, 23, 13, 51, 52, 48, 49, 48, 49, 48,
     48, 48, 48, 48, 48, 90, 48, 26, 49, 24, 48, 22, 6, 3, 85, 4, 3, 12, 15,
     97, 112, 105, 46, 101, 120, 97, 109, 112, 108, 101, 46, 99, 111, 109,
     48, 118, 48, 16, 6, 7, 42, 134, 72, 206, 61, 2, 1, 6, 5, 43, 129, 4, 0,
     34, 3, 98, 0, 4, 191, 159, 145, 168, 213, 79, 204, 208, 27, 166, 6, 0,
     57, 181, 175, 127, 169, 92, 42, 60, 213, 97, 61, 186, 42, 82, 89, 222,
     33, 115, 113, 120, 50, 237, 235, 7, 29, 166, 203, 89, 90, 138, 65, 219,
     91, 206, 82, 120, 0, 172, 191, 127, 248, 0, 197, 144, 71, 143, 85, 27,
     69, 169, 51, 59, 203, 49, 67, 213, 188, 133, 98, 115, 77, 94, 120, 127,
     29, 138, 174, 171, 20, 203, 133, 31, 18, 105, 64, 240, 110, 14, 53, 247,
     107, 255, 169, 154, 48, 10, 6, 8, 42, 134, 72, 206, 61, 4, 3, 2, 3, 71,
     0, 48, 68, 2, 32, 63, 138, 130, 146, 52, 185, 181, 223, 158, 119, 105,
     177, 15, 66, 5, 180, 144, 122, 112, 195, 16, 18, 240, 55, 182, 76, 228,
     34, 140, 56, 251, 41, 2, 32, 118, 51, 83, 195, 149, 231, 97, 209, 119,
     49, 175, 16, 80, 107, 242, 239, 198, 248, 119, 24, 109, 118, 176, 126,
     136, 30, 209, 98, 174, 46, 177, 84 >>

\* EC secp521r1 (66-byte field, 521-bit coordinates).
CertP521 ==
  << 48, 130, 1, 92, 48, 130, 1, 3, 160, 3, 2, 1, 2, 2, 2, 16, 6, 48, 10, 6,
     8, 42, 134, 72, 206, 61, 4, 3, 2, 48, 18, 49, 16, 48, 14, 6, 3, 85, 4,
     3, 12, 7, 84, 101, 115, 116, 32, 67, 65, 48, 30, 23, 13, 50, 52, 48, 49,
     48, 49, 48, 48, 48, 48, 48, 48, 90, 23, 13, 51, 52, 48, 49, 48, 49, 48,
     48, 48, 48, 48, 48, 90, 48, 26, 49, 24, 48, 22, 6, 3, 85, 4, 3, 12, 15,
     97, 112, 105, 46, 101, 120, 97, 109, 112, 108, 101, 46, 99, 111, 109,
     48, 129, 155, 48, 16, 6, 7, 42, 134, 72, 206, 61, 2, 1, 6, 5, 43, 129,
     4, 0, 35, 3, 129, 134, 0, 4, 0, 0, 254, 215, 66, 30, 223, 50, 103, 127,
     237, 130, 244, 86, 53, 209, 239, 226, 144, 135, 248, 37, 2, 206, 72,
     199, 122, 217, 166, 11, 12, 81, 236, 156, 3, 6, 5, 85, 37, 117, 200,
     215, 123, 115, 23, 52, 213, 218, 95, 43, 39, 181, 226, 103, 240, 111,
     138, 137, 73, 115, 200, 204, 217, 85, 241, 58, 0, 1, 49, 11, 223, 160,
     135, 12, 96, 176, 48, 75, 32, 190, 233, 96, 224, 86, 192, 215, 115, 113,
     150, 247, 19, 42, 109, 176, 114, 174, 144, 126, 155, 3, 217, 230, 169,
     205, 248, 79, 184, 239, 196, 103, 86, 131, 111, 154, 124, 71, 12, 148,
     207, 180, 149, 47, 201, 28, 195, 108, 198, 115, 191, 2, 193, 11, 48, 10,
     6, 8, 42, 134, 72, 206, 61, 4, 3, 2, 3, 71, 0, 48, 68, 2, 32, 99, 209,
     117, 16, 178, 241, 76, 148, 46, 5, 49, 154, 203, 92, 116, 39, 63, 152,
     226, 119, 76, 189, 135, 173, 92, 144, 169, 88, 116, 3, 228, 48, 2, 32,
     43, 247, 2, 230, 224, 9, 2, 199, 126, 191, 242, 6, 134, 115, 71, 33, 76,
     221, 32, 85, 147, 13, 110, 175, 20, 244, 115, 63, 62, 125, 27, 251 >>

\* Ed25519 (the public key of RFC 8032, section 7.1, test 1).
CertEd25519 ==
  << 48, 129, 233, 48, 129, 145, 160, 3, 2, 1, 2, 2, 2, 16, 7, 48, 10, 6, 8,
     42, 134, 72, 206, 61, 4, 3, 2, 48, 18, 49, 16, 48, 14, 6, 3, 85, 4, 3,
     12, 7, 84, 101, 115, 116, 32, 67, 65, 48, 30, 23, 13, 50, 52, 48, 49,
     48, 49, 48, 48, 48, 48, 48, 48, 90, 23, 13, 51, 52, 48, 49, 48, 49, 48,
     48, 48, 48, 48, 48, 90, 48, 26, 49, 24, 48, 22, 6, 3, 85, 4, 3, 12, 15,
     97, 112, 105, 46, 101, 120, 97, 109, 112, 108, 101, 46, 99, 111, 109,
     48, 42, 48, 5, 6, 3, 43, 101, 112, 3, 33, 0, 215, 90, 152, 1, 130, 177,
     10, 183, 213, 75, 254, 211, 201, 100, 7, 58, 14, 225, 114, 243, 218,
     166, 35, 37, 175, 2, 26, 104, 247, 7, 81, 26, 48, 10, 6, 8, 42, 134, 72,
     206, 61, 4, 3, 2, 3, 71, 0, 48, 68, 2, 32, 65, 135, 3, 222, 30, 57, 143,
     16, 18, 189, 74, 206, 250, 236, 189, 56, 155, 228, 188, 252, 73, 182,
     74, 8, 114, 230, 204, 58, 186, 188, 237, 32, 2, 32, 53, 250, 54, 52,
     125, 44, 175, 130, 238, 234, 203, 226, 38, 232, 117, 85, 87, 144, 248,
     46, 193, 211, 252, 255, 42, 58, 244, 212, 107, 10, 24, 232 >>

\* Ed448.
CertEd448 ==
  << 48, 130, 1, 2, 48, 129, 170, 160, 3, 2, 1, 2, 2, 2, 16, 8, 48, 10, 6, 8,
     42, 134, 72, 206, 61, 4, 3, 2, 48, 18, 49, 16, 48, 14, 6, 3, 85, 4, 3,
     12, 7, 84, 101, 115, 116, 32, 67, 65, 48, 30, 23, 13, 50, 52, 48, 49,
     48, 49, 48, 48, 48, 48, 48, 48, 90, 23, 13, 51, 52, 48, 49, 48, 49, 48,
     48, 48, 48, 48, 48, 90, 48, 26, 49, 24, 48, 22, 6, 3, 85, 4, 3, 12, 15,
     97, 112, 105, 46, 101, 120, 97, 109, 112, 108, 101, 46, 99, 111, 109,
     48, 67, 48, 5, 6, 3, 43, 101, 113, 3, 58, 0, 113, 76, 24, 74, 65, 161,
     173, 147, 205, 222, 16, 101, 205, 139, 100, 246, 226, 153, 184, 102, 88,
     121, 224, 224, 189, 117, 68, 138, 5, 246, 105, 214, 28, 140, 182, 14,
     162, 84, 32, 222, 236, 6, 146, 77, 146, 133, 64, 118, 146, 232, 206,
     138, 64, 153, 85, 83, 0, 48, 10, 6, 8, 42, 134, 72, 206, 61, 4, 3, 2, 3,
     71, 0, 48, 68, 2, 32, 101, 1, 9, 175, 146, 177, 211, 242, 142, 222, 13,
     122, 195, 186, 234, 158, 19, 222, 239, 134, 171, 16, 49, 208, 246, 70,
     225, 244, 10, 9, 124, 151, 2, 32, 63, 147, 10, 37, 152, 40, 159, 205,
     89, 165, 74, 123, 177, 254, 224, 143, 87, 18, 66, 66, 80, 81, 193, 204,
     209, 127, 154, 202, 224, 31, 80, 87 >>

\* X25519 (RFC 8410): a key the package loads and the program has no rule for.
CertX25519 ==
  << 48, 129, 233, 48, 129, 145, 160, 3, 2, 1, 2, 2, 2, 16, 9, 48, 10, 6, 8,
     42, 134, 72, 206, 61, 4, 3, 2, 48, 18, 49, 16, 48, 14, 6, 3, 85, 4, 3,
     12, 7, 84, 101, 115, 116, 32, 67, 65, 48, 30, 23, 13, 50, 52, 48, 49,
     48, 49, 48, 48, 48, 48, 48, 48, 90, 23, 13, 51, 52, 48, 49, 48, 49, 48,
     48, 48, 48, 48, 48, 90, 48, 26, 49, 24, 48, 22, 6, 3, 85, 4, 3, 12, 15,
     97, 112, 105, 46, 101, 120, 97, 109, 112, 108, 101, 46, 99, 111, 109,
     48, 42, 48, 5, 6, 3, 43, 101, 110, 3, 33, 0, 65, 249, 129, 214, 43, 96,
     164, 121, 100, 124, 169, 17, 196, 11, 40, 61, 153, 205, 17, 128, 117,
     175, 78, 162, 213, 84, 153, 71, 178, 68, 80, 31, 48, 10, 6, 8, 42, 134,
     72, 206, 61, 4, 3, 2, 3, 71, 0, 48, 68, 2, 32, 34, 141, 94, 192, 241,
     214, 158, 214, 23, 245, 232, 55, 215, 8, 32, 254, 17, 154, 114, 209,
     116, 201, 223, 106, 204, 1, 28, 221, 148, 116, 3, 27, 2, 32, 39, 161,
     54, 229, 179, 148, 251, 54, 187, 45, 66, 15, 15, 136, 8, 11, 16, 163,
     214, 178, 170, 5, 225, 26, 178, 113, 89, 69, 121, 94, 130, 41 >>

\* GOST R 34.10-2012: an algorithm the package does not load.
CertGost ==
  << 48, 130, 1, 16, 48, 129, 184, 160, 3, 2, 1, 2, 2, 2, 16, 10, 48, 10, 6,
     8, 42, 134, 72, 206, 61, 4, 3, 2, 48, 18, 49, 16, 48, 14, 6, 3, 85, 4,
     3, 12, 7, 84, 101, 115, 116, 32, 67, 65, 48, 30, 23, 13, 50, 52, 48, 49,
     48, 49, 48, 48, 48, 48, 48, 48, 90, 23, 13, 51, 52, 48, 49, 48, 49, 48,
     48, 48, 48, 48, 48, 90, 48, 26, 49, 24, 48, 22, 6, 3, 85, 4, 3, 12, 15,
     97, 112, 105, 46, 101, 120, 97, 109, 112, 108, 101, 46, 99, 111, 109,
     48, 81, 48, 10, 6, 8, 42, 133, 3, 7, 1, 1, 1, 1, 3, 67, 0, 4, 64, 44,
     199, 253, 123, 105, 170, 12, 83, 113, 34, 123, 255, 35, 185, 246, 168,
     143, 216, 175, 201, 16, 68, 43, 124, 13, 95, 151, 12, 192, 116, 1, 184,
     144, 37, 234, 173, 82, 56, 65, 103, 58, 145, 5, 37, 4, 118, 53, 234,
     190, 88, 19, 27, 158, 34, 239, 38, 73, 75, 208, 10, 109, 95, 54, 65, 48,
     10, 6, 8, 42, 134, 72, 206, 61, 4, 3, 2, 3, 71, 0, 48, 68, 2, 32, 91,
     186, 117, 169, 72, 219, 64, 175, 114, 21, 131, 112, 210, 105, 169, 165,
     174, 101, 143, 51, 254, 59, 137, 11, 147, 244, 72, 179, 165, 170, 60,
     129, 2, 32, 45, 127, 217, 20, 118, 49, 169, 146, 240, 206, 88, 53, 5,
     198, 175, 7, 88, 213, 86, 61, 171, 44, 211, 30, 227, 21, 18, 136, 98,
     195, 58, 79 >>

\* Not a certificate: the first 120 bytes of one.
CertTruncated ==
  << 48, 130, 1, 24, 48, 129, 192, 160, 3, 2, 1, 2, 2, 2, 16, 3, 48, 10, 6,
     8, 42, 134, 72, 206, 61, 4, 3, 2, 48, 18, 49, 16, 48, 14, 6, 3, 85, 4,
     3, 12, 7, 84, 101, 115, 116, 32, 67, 65, 48, 30, 23, 13, 50, 52, 48, 49,
     48, 49, 48, 48, 48, 48, 48, 48, 90, 23, 13, 51, 52, 48, 49, 48, 49, 48,
     48, 48, 48, 48, 48, 90, 48, 26, 49, 24, 48, 22, 6, 3, 85, 4, 3, 12, 15,
     97, 112, 105, 46, 101, 120, 97, 109, 112, 108, 101, 46, 99, 111, 109,
     48, 89, 48, 19, 6, 7, 42, 134, 72, 206, 61, 2 >>

PeerCerts ==
  { CertRsa, CertP256, CertP256LeadingZero, CertP384, CertP521, CertEd25519,
    CertEd448, CertX25519, CertGost, CertTruncated }

(***************************************************************************)
(* sha256_b64 (lines 7-8).  The digests of the raw keys of PeerCerts are   *)
(* tabulated once, when the table is first read; any other input is hashed *)
(* where it is asked for.                                                  *)
(***************************************************************************)
Sha256Base64(data) == b64encode(sha256(data))

Exports == { export_raw_public_key(c) : c \in PeerCerts }

RawKeys == { x.raw : x \in {y \in Exports : y.ok} }

DigestTable == { <<d, Sha256Base64(d)>> : d \in RawKeys }

Lookup(table, data) ==
  IF \E m \in table : m[1] = data
  THEN (CHOOSE m \in table : m[1] = data)[2]
  ELSE Sha256Base64(data)

sha256_b64(data) == Lookup(DigestTable, data)

(***************************************************************************)
(* The command line (lines 46-52).  The server name is the same in every   *)
(* run; --port and --timeout default to 443 and 5.0.                       *)
(***************************************************************************)
DefaultPort == 443

DefaultTimeout == 5

Ports == {DefaultPort, 8443}

Timeouts == {DefaultTimeout, 30}

Args ==
  [port : Ports, timeout : Timeouts, insecure : BOOLEAN, print_key : BOOLEAN]

(***************************************************************************)
(* One run of main() at a time.  pc is the line the run is about to        *)
(* execute; stdout and stderr hold the lines written so far.               *)
(***************************************************************************)
VARIABLES
  pc,         \* the statement the run executes next, or "exited"
  args,       \* the parsed command line
  ctx,        \* the SSL context: "none", "default" or "unverified"
  sock,       \* the connection: "none", "open" or "closed"
  attempts,   \* calls of socket.create_connection in this run
  peer,       \* what the handshake showed of the peer: "unknown", "trusted", "untrusted"
  cert_der,   \* the bytes get_leaf_cert_der returned (<<>> before)
  raw,        \* main's raw, spki and ktype (empty before line 56 returns)
  spki,
  ktype,
  exc,        \* the exception in flight or caught
  stdout,
  stderr,
  exit_code,  \* NotExited while the run is going
  earlier     \* certificate, first two output lines and command line of an earlier run

vars ==
  <<pc, args, ctx, sock, attempts, peer, cert_der, raw, spki, ktype, exc,
    stdout, stderr, exit_code, earlier>>

NotExited == -1

ExitSuccess == 0

ExitFailure == 1

\* No earlier run: no certificate, no lines (and the default command line).
NoRun ==
  [cert |-> <<>>, lines |-> <<>>,
   args |-> [port |-> DefaultPort, timeout |-> DefaultTimeout, insecure |-> FALSE,
             print_key |-> FALSE]]

\* A fresh process: nothing of an earlier run is left in it.
ProcessStart(a) ==
  [pc |-> "create_context", args |-> a, ctx |-> "none", sock |-> "none",
   attempts |-> 0, peer |-> "unknown", cert_der |-> <<>>, raw |-> <<>>,
   spki |-> <<>>, ktype |-> "", exc |-> NoException, stdout |-> <<>>,
   stderr |-> <<>>, exit_code |-> NotExited]

Starts(p) ==
  /\ pc = p.pc
  /\ args = p.args
  /\ ctx = p.ctx
  /\ sock = p.sock
  /\ attempts = p.attempts
  /\ peer = p.peer
  /\ cert_der = p.cert_der
  /\ raw = p.raw
  /\ spki = p.spki
  /\ ktype = p.ktype
  /\ exc = p.exc
  /\ stdout = p.stdout
  /\ stderr = p.stderr
  /\ exit_code = p.exit_code

Init ==
  /\ \E a \in Args : Starts(ProcessStart(a))
  /\ earlier = NoRun

(***************************************************************************)
(* get_leaf_cert_der (lines 10-17).                                        *)
(***************************************************************************)
\* Fault: the unverified context whatever the flag says.
create_unverified_context(insecure) == "unverified"

\* Lines 11-14.
create_context(insecure) == IF insecure THEN "unverified" ELSE "default"

CreateContext ==
  /\ pc = "create_context"
  /\ ctx' = create_context(args.insecure)
  /\ pc' = "connect"
  /\ UNCHANGED <<args, sock, attempts, peer, cert_der, raw, spki, ktype, exc,
                 stdout, stderr, exit_code, earlier>>

ConnectFailures ==
  { Raise("ConnectionRefusedError", "[Errno 111] Connection refused"),
    Raise("TimeoutError", "timed out") }

\* Line 15: socket.create_connection((host, port), timeout=timeout) connects
\* or raises.
Connect ==
  /\ pc = "connect"
  /\ attempts' = attempts + 1
  /\ \/ /\ sock' = "open"
        /\ pc' = "wrap_socket"
        /\ exc' = exc
     \/ /\ \E e \in ConnectFailures : exc' = e
        /\ sock' = sock
        /\ pc' = "except"
  /\ UNCHANGED <<args, ctx, peer, cert_der, raw, spki, ktype, stdout, stderr,
                 exit_code, earlier>>

\* The context's verification: the default context checks chain and host
\* name, the unverified one accepts any certificate.
verify_fails(context, p) == context = "default" /\ p = "untrusted"

VerifyError ==
  Raise("SSLCertVerificationError",
        "[SSL: CERTIFICATE_VERIFY_FAILED] certificate verify failed")

HandshakeError ==
  Raise("SSLError", "[SSL: TLSV1_ALERT_PROTOCOL_VERSION] tlsv1 alert protocol version")

\* Fault: a socket that is not closed on the way out.
without_exit(s) == s

\* Leaving a with block closes the socket it holds, on return and on raise.
with_exit(s) == IF s = "open" THEN "closed" ELSE s

\* Line 16: ctx.wrap_socket(sock, server_hostname=host) does the handshake.
\* It fails on a TLS error, or when the context verifies and the peer's
\* certificate is not trusted for the host; the exception leaves the with
\* block of line 15.
WrapSocket ==
  /\ pc = "wrap_socket"
  /\ \E p \in {"trusted", "untrusted"}, alert \in BOOLEAN :
        /\ peer' = p
        /\ IF alert \/ verify_fails(ctx, p)
           THEN /\ exc' = IF alert THEN HandshakeError ELSE VerifyError
                /\ sock' = with_exit(sock)
                /\ pc' = "except"
           ELSE /\ exc' = exc
                /\ sock' = sock
                /\ pc' = "getpeercert"
  /\ UNCHANGED <<args, ctx, attempts, cert_der, raw, spki, ktype, stdout,
                 stderr, exit_code, earlier>>

PeerCertError == Raise("ValueError", "handshake not done yet")

\* Line 17: return ssock.getpeercert(binary_form=True), the peer's leaf
\* certificate as sent; returning, or raising, leaves both with blocks.
GetPeerCert ==
  /\ pc = "getpeercert"
  /\ \/ /\ \E c \in PeerCerts : cert_der' = c
        /\ pc' = "export"
        /\ exc' = exc
     \/ /\ exc' = PeerCertError
        /\ cert_der' = cert_der
        /\ pc' = "except"
  /\ sock' = with_exit(sock)
  /\ UNCHANGED <<args, ctx, attempts, peer, raw, spki, ktype, stdout, stderr,
                 exit_code, earlier>>

(***************************************************************************)
(* main (lines 45-66).                                                     *)
(***************************************************************************)
\* Line 56: raw, spki, ktype = export_raw_public_key(cert_der).
ExportRawPublicKey ==
  /\ pc = "export"
  /\ \E r \in {export_raw_public_key(cert_der)} :
        IF r.ok
        THEN /\ raw' = r.raw
             /\ spki' = r.spki
             /\ ktype' = r.ktype
             /\ exc' = exc
             /\ pc' = "print_format"
        ELSE /\ exc' = r.exc
             /\ pc' = "except"
             /\ UNCHANGED <<raw, spki, ktype>>
  /\ UNCHANGED <<args, ctx, sock, attempts, peer, cert_der, stdout, stderr,
                 exit_code, earlier>>

\* Fault: the handler exits with status 1 and prints nothing.
ExitSilently ==
  /\ pc = "except"
  /\ exit_code' = ExitFailure
  /\ pc' = "exited"
  /\ UNCHANGED <<args, ctx, sock, attempts, peer, cert_der, raw, spki, ktype,
                 exc, stdout, stderr, earlier>>

error_line == "Error: " \o exc.msg

\* Lines 57-59: except Exception as e: print the error, sys.exit(1).
HandleException ==
  /\ pc = "except"
  /\ stderr' = Append(stderr, error_line)
  /\ exit_code' = ExitFailure
  /\ pc' = "exited"
  /\ UNCHANGED <<args, ctx, sock, attempts, peer, cert_der, raw, spki, ktype,
                 exc, stdout, earlier>>

\* Fault: a label line that depends on the command line.
format_line_by_flag ==
  "Key format (raw export): " \o ktype \o (IF args.insecure THEN " (unverified)" ELSE "")

\* The text of line 61.
format_line == "Key format (raw export): " \o ktype

\* Fault: the pin computed over the SubjectPublicKeyInfo.
pin_line_of_spki ==
  "PIN (RAW key)  SHA256 Base64: " \o sha256_b64(spki) \o "   <-- use this KEY"

\* The text of line 62.
pin_line == "PIN (RAW key)  SHA256 Base64: " \o sha256_b64(raw) \o "   <-- use this KEY"

\* Fault: the pin line printed where the key-format line belongs.
PrintPinFirst ==
  /\ pc = "print_format"
  /\ stdout' = Append(stdout, pin_line)
  /\ pc' = "print_pin"
  /\ UNCHANGED <<args, ctx, sock, attempts, peer, cert_der, raw, spki, ktype,
                 exc, stderr, exit_code, earlier>>

\* Line 61.
PrintFormat ==
  /\ pc = "print_format"
  /\ stdout' = Append(stdout, format_line)
  /\ pc' = "print_pin"
  /\ UNCHANGED <<args, ctx, sock, attempts, peer, cert_der, raw, spki, ktype,
                 exc, stderr, exit_code, earlier>>

\* Line 62.
PrintPin ==
  /\ pc = "print_pin"
  /\ stdout' = Append(stdout, pin_line)
  /\ pc' = "if_print_key"
  /\ UNCHANGED <<args, ctx, sock, attempts, peer, cert_der, raw, spki, ktype,
                 exc, stderr, exit_code, earlier>>

\* The text of line 65 after its leading newline (the source has an em dash
\* where this has a hyphen).
RawKeyWarning == "Raw public key (Base64) - sensitive, do not log in prod:"

\* Fault: the key printed whether or not --print-key was given.
PrintKeyWarningUnguarded ==
  /\ pc = "if_print_key"
  /\ stdout' = stdout \o <<"", "Raw public key (Base64) - sensitive, do not log in prod:">>
  /\ pc' = "print_key"
  /\ UNCHANGED <<args, ctx, sock, attempts, peer, cert_der, raw, spki, ktype,
                 exc, stderr, exit_code, earlier>>

\* Lines 64-65: if args.print_key, print an empty line and the warning.
PrintKeyWarning ==
  /\ pc = "if_print_key"
  /\ args.print_key
  /\ stdout' = stdout \o <<"", RawKeyWarning>>
  /\ pc' = "print_key"
  /\ UNCHANGED <<args, ctx, sock, attempts, peer, cert_der, raw, spki, ktype,
                 exc, stderr, exit_code, earlier>>

key_line == b64encode(raw)

\* Line 66.
PrintKey ==
  /\ pc = "print_key"
  /\ stdout' = Append(stdout, key_line)
  /\ pc' = "return"
  /\ UNCHANGED <<args, ctx, sock, attempts, peer, cert_der, raw, spki, ktype,
                 exc, stderr, exit_code, earlier>>

\* main returns, after line 66 or past the if of line 64, and the
\* interpreter exits with status 0.
Return ==
  /\ \/ pc = "return"
     \/ pc = "if_print_key" /\ ~args.print_key
  /\ exit_code' = ExitSuccess
  /\ pc' = "exited"
  /\ UNCHANGED <<args, ctx, sock, attempts, peer, cert_der, raw, spki, ktype,
                 exc, stdout, stderr, earlier>>

(***************************************************************************)
(* The tool is run again, with any command line.  earlier remembers one    *)
(* of the successful runs so far, to compare a later run with.             *)
(***************************************************************************)
ThisRun == [cert |-> cert_der, lines |-> SubSeq(stdout, 1, 2), args |-> args]

Invoke ==
  /\ pc = "exited"
  /\ \E a \in Args :
       LET p == ProcessStart(a)
       IN  /\ pc' = p.pc
           /\ args' = p.args
           /\ ctx' = p.ctx
           /\ sock' = p.sock
           /\ attempts' = p.attempts
           /\ peer' = p.peer
           /\ cert_der' = p.cert_der
           /\ raw' = p.raw
           /\ spki' = p.spki
           /\ ktype' = p.ktype
           /\ exc' = p.exc
           /\ stdout' = p.stdout
           /\ stderr' = p.stderr
           /\ exit_code' = p.exit_code
  /\ earlier' \in {earlier} \cup (IF exit_code = ExitSuccess THEN {ThisRun} ELSE {})

Next ==
  \/ CreateContext
  \/ Connect
  \/ WrapSocket
  \/ GetPeerCert
  \/ ExportRawPublicKey
  \/ HandleException
  \/ PrintFormat
  \/ PrintPin
  \/ PrintKeyWarning
  \/ PrintKey
  \/ Return
  \/ Invoke

Spec == Init /\ [][Next]_vars

(***************************************************************************)
(* Known answers for the certificates of PeerCerts whose key the package   *)
(* loads.  They were computed outside the model, with Python's hashlib and *)
(* base64 over the bytes of the certificate that hold the key: spkiAt and  *)
(* rawAt give the first index and the length of the SubjectPublicKeyInfo   *)
(* element and of the key in its raw form (for X25519, which has no raw    *)
(* rule, the SubjectPublicKeyInfo again); pin and spkiPin are              *)
(* base64(sha256(.)) of the two, rawB64 is base64 of the raw form.         *)
(***************************************************************************)
KnownAnswers ==
  { [cert |-> CertRsa, family |-> "RSA", curve |-> "", width |-> 0,
     spkiAt |-> <<105, 162>>, rawAt |-> <<127, 140>>,
     pin |-> "dNANIXNPp3fgfgs/fSYs45Gf5ERhsoLGwUsosNK35V8=",
     spkiPin |-> "hA6Kn1Q383ayZp3s3EXjnjDaaDXigk47uDVgbHBgwCQ=",
     rawB64 |->
       "MIGJAoGBAL74Ntvk3JJ9UphtQWnIYO2jel3+IXZ2U5fo7LDh+jUH9Yh/P0qd" \o
       "/7rIM7U7/yJpmdrBRrjea4yVVFpOOvCKI1tTeet31v8R9agxpkoauonvpdXQ" \o
       "Czvi67DUbnZoKUHdDINt+E5/Z5M5H9CWiSiqIR4+RCBShm8L+mwV8X9tuubv" \o
       "AgMBAAE="],
    [cert |-> CertP256, family |-> "EC", curve |-> "secp256r1", width |-> 32,
     spkiAt |-> <<109, 91>>, rawAt |-> <<135, 65>>,
     pin |-> "j4RWvjLO9It3MdFEbwIybE/FeZK3v90YHQwFBqfRI5k=",
     spkiPin |-> "WqjPMXPtDHFPfcVvxEinTYkWimi4vmdSoS3/n5ECRkM=",
     rawB64 |->
       "BF2Wz38mW+2pzwwm70JD7VJWa/nXxVpF+NGm5V6bmxMl4uSVxH0D4MlUyeG1" \o
       "oGa2BrJKBbqeJYp9+BmdEwxwaSM="],
    [cert |-> CertP256LeadingZero, family |-> "EC", curve |-> "secp256r1", width |-> 32,
     spkiAt |-> <<109, 91>>, rawAt |-> <<135, 65>>,
     pin |-> "8JsnNcQ8tVQhAcNMQeNRm8CIjBmT0OVjaLr6ChrNF5w=",
     spkiPin |-> "bm6iZvp6Zm0giCf1WEmzHoX1tel8L3BBipWBor5B8Kk=",
     rawB64 |->
       "BACtkVqzdSOlO0o+4gRjUTdVrA7NXmoKLt1w403B13z/aWXxgXIMhs9x3zdo" \o
       "ojFHIMf5aIgQ+L4G+6inHAtkWwI="],
    [cert |-> CertP384, family |-> "EC", curve |-> "secp384r1", width |-> 48,
     spkiAt |-> <<109, 120>>, rawAt |-> <<132, 97>>,
     pin |-> "gwhkwtwlteFGMwEVW9Bfzhyw0NsCHO2hn/o9qDcmkhg=",
     spkiPin |-> "SXfDsD3VY+yeDqzF/kokq2kY9UeO+6ybfO+ygh23PNA=",
     rawB64 |->
       "BL+fkajVT8zQG6YGADm1r3+pXCo81WE9uipSWd4hc3F4Mu3rBx2my1laikHb" \o
       "W85SeACsv3/4AMWQR49VG0WpMzvLMUPVvIVic01eeH8diq6rFMuFHxJpQPBu" \o
       "DjX3a/+pmg=="],
    [cert |-> CertP521, family |-> "EC", curve |-> "secp521r1", width |-> 66,
     spkiAt |-> <<110, 158>>, rawAt |-> <<135, 133>>,
     pin |-> "r9eN6M7nuhu5supkMPtepw1JxdiuBFIwwGoV+wD78zk=",
     spkiPin |-> "YaqhrSHqPSqOv2yIOu7zvQf/V21/VWrhIJp6HmNfT+Y=",
     rawB64 |->
       "BAAA/tdCHt8yZ3/tgvRWNdHv4pCH+CUCzkjHetmmCwxR7JwDBgVVJXXI13tz" \o
       "FzTV2l8rJ7XiZ/BviolJc8jM2VXxOgABMQvfoIcMYLAwSyC+6WDgVsDXc3GW" \o
       "9xMqbbByrpB+mwPZ5qnN+E+478RnVoNvmnxHDJTPtJUvyRzDbMZzvwLBCw=="],
    [cert |-> CertEd25519, family |-> "Ed25519", curve |-> "", width |-> 0,
     spkiAt |-> <<108, 44>>, rawAt |-> <<120, 32>>,
     pin |-> "If4x36FUomFia/hUBG/SJxt77UtqvkWqWId+9H+XIbk=",
     spkiPin |-> "BuP9j9opu2CrWVV95h7bCuzbIxE0vjDnW0Vfjht5L6k=",
     rawB64 |->
       "11qYAYKxCrfVS/7TyWQHOg7hcvPapiMlrwIaaPcHURo="],
    [cert |-> CertEd448, family |-> "Ed448", curve |-> "", width |-> 0,
     spkiAt |-> <<109, 69>>, rawAt |-> <<121, 57>>,
     pin |-> "iFzp+1mP2mRv6Pm0Bv4U6oGkbUix8J1r8XnEQTTOotQ=",
     spkiPin |-> "uwTV2Pg/VzYQwqEeKwgLyK19BpJTNYBqbCzgB5ZqrVY=",
     rawB64 |->
       "cUwYSkGhrZPN3hBlzYtk9uKZuGZYeeDgvXVEigX2adYcjLYOolQg3uwGkk2S" \o
       "hUB2kujOikCZVVMA"],
    [cert |-> CertX25519, family |-> "X25519", curve |-> "", width |-> 0,
     spkiAt |-> <<108, 44>>, rawAt |-> <<108, 44>>,
     pin |-> "jSOYXjTfNSeJc64IGYxxd1o2+ugL0FDMRYqPzcsBTLw=",
     spkiPin |-> "jSOYXjTfNSeJc64IGYxxd1o2+ugL0FDMRYqPzcsBTLw=",
     rawB64 |->
       "MCowBQYDK2VuAyEAQfmB1itgpHlkfKkRxAsoPZnNEYB1r06i1VSZR7JEUB8="] }

Bytes(b, at) == SubSeq(b, at[1], at[1] + at[2] - 1)

PinLineOf(pin) == "PIN (RAW key)  SHA256 Base64: " \o pin \o "   <-- use this KEY"

\* The families with a raw rule of their own, whose raw form is not the SPKI.
RawFamilies == {"RSA", "EC", "Ed25519", "Ed448"}

\* hashlib's digests of the SubjectPublicKeyInfo elements are what the
\* model's sha256 and b64encode give for them.
SpkiPinsAgree ==
  \A k \in KnownAnswers :
    k.family \in RawFamilies => Sha256Base64(Bytes(k.cert, k.spkiAt)) = k.spkiPin

Succeeded == pc = "exited" /\ exit_code = ExitSuccess

Failed == pc = "exited" /\ exit_code = ExitFailure

\* export_raw_public_key has returned to main.
Exported == ktype # ""

(***************************************************************************)
(* C1.  Once the pin line is printed, the pin in it is                     *)
(* base64(sha256(raw)), raw being the first element that                   *)
(* export_raw_public_key returns for the fetched certificate; it is the    *)
(* digest hashlib gives for those bytes, and for RSA, EC, Ed25519 and      *)
(* Ed448 keys raw is not the SPKI and the pin is not the SPKI's digest.    *)
(***************************************************************************)
PinIsHashOfRawKey ==
  Len(stdout) >= 2 =>
    \E k \in KnownAnswers :
      /\ k.cert = cert_der
      /\ \E x \in {export_raw_public_key(cert_der)} :
            /\ x.ok
            /\ x.raw = Bytes(cert_der, k.rawAt)
            /\ stdout[2] = PinLineOf(sha256_b64(x.raw))
      /\ stdout[2] = PinLineOf(k.pin)
      /\ k.family \in RawFamilies =>
            /\ SpkiPinsAgree
            /\ Bytes(cert_der, k.rawAt) # Bytes(cert_der, k.spkiAt)
            /\ stdout[2] # PinLineOf(k.spkiPin)

\* A successful run on the RSA certificate has printed hashlib's pin of the
\* PKCS#1 key.
PinOfRsaKeyPrinted ==
  /\ Succeeded
  /\ cert_der = CertRsa
  /\ stdout[2] = PinLineOf("dNANIXNPp3fgfgs/fSYs45Gf5ERhsoLGwUsosNK35V8=")

(***************************************************************************)
(* C2.  A run that has ended has exit code 0 or 1: 1 exactly when an       *)
(* exception was raised, and then stderr holds the single line "Error: "   *)
(* followed by the exception's text and stdout holds nothing; 0 otherwise, *)
(* with nothing on stderr and the two lines on stdout.  An exception is    *)
(* never dropped: once raised, the run is in the handler or has ended, and *)
(* a run that has not ended has no exit code and nothing on stderr.        *)
(***************************************************************************)
FailureKinds ==
  {"ConnectionRefusedError", "TimeoutError", "SSLError", "SSLCertVerificationError",
   "ValueError", "UnsupportedAlgorithm"}

ExitCodeTellsOutcome ==
  /\ exc # NoException => pc \in {"except", "exited"} /\ exc.type \in FailureKinds
  /\ pc # "exited" => exit_code = NotExited /\ stderr = <<>>
  /\ pc = "exited" =>
       /\ exit_code \in {ExitSuccess, ExitFailure}
       /\ exit_code = ExitFailure <=> exc # NoException
       /\ exit_code = ExitFailure =>
            /\ stderr = <<"Error: " \o exc.msg>>
            /\ stdout = <<>>
       /\ exit_code = ExitSuccess =>
            /\ stderr = <<>>
            /\ Len(stdout) >= 2

\* A run ended with status 1 because the certificate's key could not be
\* extracted, with the one error line written.
ExtractionFailureReported ==
  /\ Failed
  /\ cert_der = CertGost
  /\ stderr = <<"Error: Unknown key type">>
  /\ stdout = <<>>

EdwardsLabelsAsSpecified ==
  Exported =>
    \A k \in KnownAnswers :
      k.cert = cert_der =>
        /\ k.family = "Ed25519" =>
             /\ Len(raw) = 32
             /\ raw = Bytes(cert_der, k.rawAt)
             /\ ktype = "Ed25519 (raw)"
             /\ Len(stdout) >= 1 => stdout[1] = "Key format (raw export): Ed25519 (raw)"
        /\ k.family = "Ed448" =>
             /\ Len(raw) = 57
             /\ raw = Bytes(cert_der, k.rawAt)
             /\ ktype = "Ed448 (raw)"
             /\ Len(stdout) >= 1 => stdout[1] = "Key format (raw export): Ed448 (raw)"

(***************************************************************************)
(* C5.  The context skips verification exactly when --insecure was given.  *)
(* A run without --insecure whose peer is not trusted for the host never   *)
(* gets past the handshake: it ends with exit code 1 and prints nothing on *)
(* stdout.  A run with --insecure never fails verification, so with the    *)
(* same peer it ends with exit code 0 and the pin printed unless something *)
(* other than trust fails.                                                 *)
(***************************************************************************)
InsecureIsOptIn ==
  /\ ctx # "none" => (ctx = "unverified" <=> args.insecure)
  /\ peer = "untrusted" /\ ~args.insecure =>
       /\ pc \in {"except", "exited"}
       /\ exc \in {VerifyError, HandshakeError}
       /\ cert_der = <<>>
       /\ stdout = <<>>
       /\ pc = "exited" => exit_code = ExitFailure
  /\ args.insecure => exc # VerifyError
  /\ pc = "exited" /\ peer = "untrusted" /\ args.insecure /\ exc = NoException =>
       /\ exit_code = ExitSuccess
       /\ Len(stdout) >= 2
       /\ \E k \in KnownAnswers : k.cert = cert_der /\ stdout[2] = PinLineOf(k.pin)

\* With --insecure, a run against an untrusted peer has ended with status 0
\* and a pin.
UntrustedPeerPinned ==
  /\ Succeeded
  /\ peer = "untrusted"
  /\ args.insecure
  /\ ctx = "unverified"
  /\ Len(stdout) >= 2

(***************************************************************************)
(* C6.  A run calls socket.create_connection at most once, the connection  *)
(* is open only inside the with blocks of get_leaf_cert_der (during the    *)
(* handshake and the reading of the peer certificate), and it is closed    *)
(* once get_leaf_cert_der has returned or raised, so no run ends with the  *)
(* connection open.                                                        *)
(***************************************************************************)
OneConnectionAlwaysClosed ==
  /\ attempts <= 1
  /\ attempts = 0 <=> pc \in {"create_context", "connect"}
  /\ sock = "open" <=> pc \in {"wrap_socket", "getpeercert"}
  /\ sock = "closed" => attempts = 1
  /\ pc \notin {"create_context", "connect", "wrap_socket", "getpeercert"} =>
       sock = (IF exc \in ConnectFailures THEN "none" ELSE "closed")

\* The handshake failed and the run has ended with the connection closed.
ClosedAfterHandshakeFailure ==
  /\ Failed
  /\ exc = HandshakeError
  /\ attempts = 1
  /\ sock = "closed"

(***************************************************************************)
(* C7.  The Base64 of the raw key is printed only with --print-key: a run  *)
(* without the flag prints at most the two lines; a successful run with    *)
(* the flag ends with five lines, the fifth being the Base64 of raw, after *)
(* the key-format and pin lines, an empty line and the warning, and the    *)
(* Base64 of raw is on no other line; a failed run prints nothing on       *)
(* stdout.                                                                 *)
(***************************************************************************)
RawKeyPrintedOnceIfAsked ==
  /\ ~args.print_key => Len(stdout) <= 2
  /\ Len(stdout) <= 5
  /\ Len(stdout) >= 3 =>
       /\ args.print_key
       /\ stdout[2] = PinLineOf(sha256_b64(raw))
       /\ stdout[3] = ""
       /\ stdout[4] = RawKeyWarning
  /\ Len(stdout) = 5 =>
       \E k \in KnownAnswers :
         /\ k.cert = cert_der
         /\ stdout[5] = k.rawB64
         /\ {i \in 1..5 : stdout[i] = k.rawB64} = {5}
  /\ Succeeded => Len(stdout) = (IF args.print_key THEN 5 ELSE 2)
  /\ Failed => stdout = <<>>

\* A successful run with --print-key on the Ed25519 certificate has printed
\* the key last.
RawKeyPrinted ==
  /\ Succeeded
  /\ args.print_key
  /\ cert_der = CertEd25519
  /\ Len(stdout) = 5
  /\ stdout[5] = "11qYAYKxCrfVS/7TyWQHOg7hcvPapiMlrwIaaPcHURo="

(***************************************************************************)
(* C8.  For an EC certificate on a curve of field width W bytes, the raw   *)
(* bytes export_raw_public_key returned are 1 + 2W long and start with     *)
(* 0x04, and the two W-byte halves after it are the X and Y coordinates of *)
(* the certificate's point: each half has the coordinate's value, zero     *)
(* bytes on the left included.                                             *)
(***************************************************************************)
EcPointIsFixedWidth ==
  Exported =>
    \A k \in KnownAnswers :
      k.cert = cert_der /\ k.family = "EC" =>
        \E pk \in {public_key(load_der_x509_certificate(cert_der))} :
          /\ pk.ok
          /\ pk.key.curve = k.curve
          /\ Len(raw) = 1 + 2 * k.width
          /\ raw[1] = 4
          /\ StripZeros(SubSeq(raw, 2, k.width + 1)) = pk.key.x
          /\ StripZeros(SubSeq(raw, k.width + 2, 2 * k.width + 1)) = pk.key.y
          /\ raw = Bytes(cert_der, k.rawAt)

\* The export of a P-256 key whose X coordinate begins with a zero byte.
LeadingZeroCoordinateExported ==
  /\ Exported
  /\ cert_der = CertP256LeadingZero
  /\ Len(raw) = 65
  /\ raw[2] = 0

(***************************************************************************)
(* C9.  stdout starts with the key-format line and then the pin line, each *)
(* once, and the label and the pin in them are the third and (hashed) the  *)
(* first value of one call of export_raw_public_key on the fetched         *)
(* certificate; nothing is on stdout before the certificate was fetched    *)
(* and that call returned, and every successful run has both lines.        *)
(***************************************************************************)
TwoLinesInOrder ==
  /\ stdout # <<>> =>
       /\ cert_der # <<>>
       /\ exc = NoException
       /\ pc \in {"print_pin", "if_print_key", "print_key", "return", "exited"}
       /\ \E x \in {export_raw_public_key(cert_der)} :
             /\ x.ok
             /\ x.raw = raw
             /\ x.ktype = ktype
             /\ stdout[1] = "Key format (raw export): " \o x.ktype
             /\ Len(stdout) >= 2 => stdout[2] = PinLineOf(sha256_b64(x.raw))
       /\ {i \in 1..Len(stdout) : stdout[i] = stdout[1]} = {1}
       /\ Len(stdout) >= 2 => {i \in 1..Len(stdout) : stdout[i] = stdout[2]} = {2}
  /\ pc \in {"if_print_key", "print_key", "return"} => Len(stdout) >= 2
  /\ Succeeded => Len(stdout) >= 2

\* A successful run on the P-384 certificate with its two lines.
TwoLinesPrinted ==
  /\ Succeeded
  /\ cert_der = CertP384
  /\ stdout[1] = "Key format (raw export): EC secp384r1 (X9.63 uncompressed)"
  /\ stdout[2] = PinLineOf("gwhkwtwlteFGMwEVW9Bfzhyw0NsCHO2hn/o9qDcmkhg=")

(***************************************************************************)
(* C10.  A run that received the same certificate bytes as an earlier      *)
(* successful run prints the same key-format line and the same pin line,   *)
(* whatever the two command lines were; and a run starts from a fresh      *)
(* process, with nothing of the run before it.                             *)
(***************************************************************************)
OutputDependsOnCertificateOnly ==
  /\ earlier # NoRun /\ earlier.cert = cert_der =>
       \A i \in 1..2 : Len(stdout) >= i => stdout[i] = earlier.lines[i]
  /\ earlier # NoRun => Len(earlier.lines) = 2
  /\ pc = "create_context" => Starts(ProcessStart(args))

\* Two successful runs with the same certificate, the earlier with --insecure
\* and --print-key, the later with neither and with another port and
\* timeout, now ended with the same two lines.
SameCertificateTwice ==
  /\ Succeeded
  /\ earlier # NoRun
  /\ earlier.cert = cert_der
  /\ cert_der = CertEd448
  /\ earlier.args.insecure /\ ~args.insecure
  /\ earlier.args.print_key /\ ~args.print_key
  /\ earlier.args.port # args.port
  /\ earlier.args.timeout # args.timeout
  /\ SubSeq(stdout, 1, 2) = earlier.lines

====
